---- MODULE Spec2Model ----
(***************************************************************************)
(* HeifImageLoader::load (src/src/imageio/HeifImageLoader.cpp): the decode *)
(* of a HEIF container into a multi-channel float image.  The load is one  *)
(* cooperative task; its position is pc.  Every answer of the container    *)
(* decoder, the colour engine and the EXIF parser is an input drawn from a *)
(* small set at the call that asks for it.                                 *)
(***************************************************************************)
EXTENDS Integers, Sequences, FiniteSets, TLC

\* ------------------------------------------------------------------ bounds
MaxDim == 2          \* heights (rows) are drawn from 0..MaxDim
MaxWidth == 3        \* widths are drawn from 0..MaxWidth
MaxAux == 2          \* auxiliary images per file: 0..MaxAux
MaxExif == 2         \* EXIF blocks on the primary handle: 0..MaxExif
NumThreads == 2      \* workers of the pool
MaxOther == 1        \* batches another load puts on the same pool
MaxOdd == 2          \* answers of the libraries that differ from the plain file's

\* ----------------------------------------------------------------- strings
\* A string is a sequence of one-character strings.
sApple == <<"a", "p", "p", "l", "e">>
sHdrGainMap == <<"h", "d", "r", "g", "a", "i", "n", "m", "a", "p">>
sDepth == <<"d", "e", "p", "t", "h">>
sDep == <<"d", "e", "p">>
sColor == <<"c", "o", "l", "o", "r">>
sDEP == <<"D", "E", "P">>
\* "apple:hdrgainmap", the shape of the vendor's gain-map tag
sAppleGainTag == sApple \o <<":">> \o sHdrGainMap

Digit(n) == CASE n = 0 -> "0" [] n = 1 -> "1" [] n = 2 -> "2" [] n = 3 -> "3"
              [] n = 4 -> "4" [] n = 5 -> "5" [] n = 6 -> "6" [] n = 7 -> "7"
              [] n = 8 -> "8" [] OTHER -> "9"

RECURSIVE toString(_)
toString(n) == IF n < 10 THEN <<Digit(n)>> ELSE toString(n \div 10) \o <<Digit(n % 10)>>

\* string::find(needle) != npos
Contains(text, needle) ==
    \E k \in 0..(Len(text) - Len(needle)) :
        \A j \in 1..Len(needle) : text[k + j] = needle[j]

\* std::replace(begin, end, ':', '.')
ReplaceColons(s) == [k \in 1..Len(s) |-> IF s[k] = ":" THEN "." ELSE s[k]]

NoString == <<"<null>">>

\* auxType ? fmt::format("{}.", auxType) : fmt::format("{}.", num_aux), then replace
LayerName(auxType, numAux) ==
    ReplaceColons((IF auxType # NoString THEN auxType ELSE toString(numAux)) \o <<".">>)

\* matchesFuzzy(text, filter): the selector is a substring of the name
matchesFuzzy(text, filter) == Contains(text, filter)

\* the vendor and gain-map markers of the name
IsAppleGainMap(name) == Contains(name, sApple) /\ Contains(name, sHdrGainMap)

\* ------------------------------------------------------------ pixel values
\* Sample values are terms: what was computed from what.
Zero == <<"zero">>
BitDepths == {10}
\* the raw interleaved plane of a decoded image: sample k of row y
Raw(y, k) == (y * 16 + k * 3 + 1) % 1024
\* typedData[k] * channelScale, channelScale = 1 / ((1 << bits) - 1)
Norm(raw, bits) == <<"norm", raw, 2 ^ bits - 1>>
toLinear(v) == <<"lin", v>>
\* output sample c of cmsDoTransform on one pixel
IccOut(inPixel, c) == <<"icc", c, inPixel>>

\* ------------------------------------------------------------------ images
Identity == <<"identity">>
Rec709Chroma == "rec709"
\* Imf::RGBtoXYZ(chroma, 1) * Imf::XYZtoRGB(rec709, 1)
PrimariesMatrix(chroma) == <<"RGBtoXYZ*XYZtoRGB", chroma, Rec709Chroma>>

NoImage == [channels |-> <<>>, bufs |-> <<>>, hasPremultipliedAlpha |-> FALSE,
            toRec709 |-> Identity]

ChannelNames == <<"R", "G", "B", "A">>

\* numChannels channels over one zeroed RGBA-interleaved buffer
makeNChannels(numChannels, size, namePrefix) ==
    [channels |-> [c \in 1..numChannels |->
                     [name |-> namePrefix \o <<ChannelNames[c]>>, size |-> size,
                      buf |-> 1, off |-> c - 1]],
     bufs |-> << [k \in 1..(size[1] * size[2] * 4) |-> Zero] >>]

\* channels[c].at(i), c and i counted from 0
At(img, c, i) == img.bufs[img.channels[c + 1].buf][i * 4 + img.channels[c + 1].off + 1]

\* channels.front().size()
FrontSize(img) == img.channels[1].size

\* ------------------------------------------------------------------- state
VARIABLES
    pc,               \* position of the load task
    channelSelector,  \* load's argument
    live,             \* native handles acquired and not yet released
    mainImage,        \* result.front()
    dec,              \* decodeImage's frame: caller, numChannels, size, bits, transform
    resultData,       \* decodeImage's resultData
    src,              \* the ICC path's scratch array
    num_aux, i,       \* the auxiliary loop
    auxLayerName, auxImgData,
    scaledResultData, \* resizeImage's local
    amn,              \* what findAppleMakerNote returned
    batch,            \* the parallel-for the load is suspended on
    other,            \* another load's use of the same pool
    odd,              \* how many more answers may differ from the plain file's
    trace             \* what has happened, for the properties

vars == <<pc, channelSelector, live, mainImage, dec, resultData, src, num_aux, i,
          auxLayerName, auxImgData, scaledResultData, amn, batch, other, odd, trace>>

NoBatch == [kind |-> "none", st |-> <<>>]
NoDec == [caller |-> "none", numChannels |-> 0, size |-> <<0, 0>>, bits |-> 0,
          transform |-> FALSE, namePrefix |-> <<>>]
NoNote == <<"none">>

\* per decodeImage call: was heif_decode_image called, were buffers allocated, the
\* flag of line 143, how often getCmsTransform was called and what the libraries
\* answered it, the NCLX descriptor read; per load: the layers dealt with, where an
\* exception left, the EXIF blocks findAppleMakerNote saw, what resizeImage did
NoDecTrace == [pixelDecode |-> FALSE, allocated |-> FALSE, flagIn |-> FALSE,
               iccAttempts |-> 0, icc |-> "unasked",
               nclx |-> [error |-> "unread", color_primaries |-> 0, chroma |-> "none"]]
NoTrace == [d |-> NoDecTrace, layers |-> <<>>, failedIn |-> "none", exif |-> <<>>,
            resized |-> "no"]

Selectors == {<<>>, sDep, sColor, sApple, sDEP}

\* The plain file: opaque RGB images of MaxWidth x MaxDim without colour profiles,
\* layers tagged "depth", no selector, no failing call.  Each answer that differs
\* counts against MaxOdd.
Odd(differs) == IF differs THEN 1 ELSE 0

InitLoad ==
    /\ pc = "alloc_ctx"
    /\ channelSelector \in Selectors
    /\ odd = MaxOdd - Odd(channelSelector # <<>>)
    /\ live = {}
    /\ mainImage = NoImage
    /\ dec = NoDec
    /\ resultData = NoImage
    /\ src = <<>>
    /\ num_aux = 0
    /\ i = 0
    /\ auxLayerName = <<>>
    /\ auxImgData = NoImage
    /\ scaledResultData = NoImage
    /\ amn = NoNote
    /\ batch = NoBatch
    /\ trace = NoTrace

\* one load, alone on the pool
Init ==
    /\ InitLoad
    /\ other = [left |-> 0, st |-> <<>>]

\* the load shares the pool with another load
InitPool ==
    /\ InitLoad
    /\ other = [left |-> MaxOther, st |-> <<>>]

\* ---------------------------------------------------------------- unwinding
\* The handles a ScopeGuard owns; the tone curve and the auxiliary image handles
\* have none.
Guarded == {"ctx", "handle", "img", "auxType", "srcProfile", "rec709Profile",
            "transform", "nclx", "exif"}

\* an exception leaves load: every guard in scope runs
Throw(where, tr) ==
    /\ pc' = "failed"
    /\ live' = live \ Guarded
    /\ trace' = [tr EXCEPT !.failedIn = where]

\* ------------------------------------------------------- container, primary
\* lines 120-125
AllocContext ==
    /\ pc = "alloc_ctx"
    /\ \E ok \in BOOLEAN :
        /\ Odd(~ok) <= odd
        /\ odd' = odd - Odd(~ok)
        /\ IF ok
           THEN /\ live' = live \cup {"ctx"}
                /\ pc' = "read_ctx"
                /\ UNCHANGED trace
           ELSE Throw("load", trace)
    /\ UNCHANGED <<channelSelector, mainImage, dec, resultData, src, num_aux, i,
                   auxLayerName, auxImgData, scaledResultData, amn, batch, other>>

\* lines 127-137
ReadContext ==
    /\ pc = "read_ctx"
    /\ \E readOk \in BOOLEAN, handleOk \in BOOLEAN :
        /\ Odd(~(readOk /\ handleOk)) <= odd
        /\ odd' = odd - Odd(~(readOk /\ handleOk))
        /\ IF readOk /\ handleOk
           THEN /\ live' = live \cup {"handle"}
                /\ pc' = "dec_probe"
                /\ dec' = [NoDec EXCEPT !.caller = "primary"]
                /\ trace' = [trace EXCEPT !.d = NoDecTrace]
           ELSE /\ Throw("load", trace)
                /\ UNCHANGED dec
    /\ UNCHANGED <<channelSelector, mainImage, resultData, src, num_aux, i,
                   auxLayerName, auxImgData, scaledResultData, amn, batch, other>>

\* ------------------------------------------------------------- decodeImage
Dims == 0..MaxDim
Widths == 0..MaxWidth

\* the test of line 151 with && for ||
IsEmptyBoth(size) == size[1] = 0 /\ size[2] = 0

\* line 151
IsEmpty(size) == size[1] = 0 \/ size[2] = 0

\* lines 139-153: channel count, premultiplication flag, size, the zero-area test
DecodeProbe ==
    /\ pc = "dec_probe"
    /\ \E alpha \in BOOLEAN, w \in Widths, h \in Dims :
       \E premul \in (IF alpha THEN BOOLEAN ELSE {FALSE}) :
       LET cost == Odd(alpha) + Odd(<<w, h>> # <<MaxWidth, MaxDim>>) IN
        /\ cost <= odd
        /\ odd' = odd - cost
        /\ dec' = [dec EXCEPT !.numChannels = IF alpha THEN 4 ELSE 3,
                              !.size = <<w, h>>]
        /\ resultData' = [NoImage EXCEPT !.hasPremultipliedAlpha = alpha /\ premul]
        /\ IF IsEmpty(<<w, h>>)
           THEN Throw("decode", [trace EXCEPT !.d.flagIn = alpha /\ premul])
           ELSE /\ pc' = "dec_pixels"
                /\ trace' = [trace EXCEPT !.d.flagIn = alpha /\ premul]
                /\ UNCHANGED live
    /\ UNCHANGED <<channelSelector, mainImage, src, num_aux, i, auxLayerName,
                   auxImgData, scaledResultData, amn, batch, other>>

\* lines 155-160: heif_decode_image
DecodePixels ==
    /\ pc = "dec_pixels"
    /\ \E ok \in BOOLEAN :
        /\ Odd(~ok) <= odd
        /\ odd' = odd - Odd(~ok)
        /\ IF ok
           THEN /\ live' = live \cup {"img"}
                /\ pc' = "dec_plane"
                /\ trace' = [trace EXCEPT !.d.pixelDecode = TRUE]
           ELSE Throw("decode", [trace EXCEPT !.d.pixelDecode = TRUE])
    /\ UNCHANGED <<channelSelector, mainImage, dec, resultData, src, num_aux, i,
                   auxLayerName, auxImgData, scaledResultData, amn, batch, other>>

\* lines 169-178: bit depth, the sample plane, makeNChannels
DecodePlane ==
    /\ pc = "dec_plane"
    /\ \E bits \in BitDepths, planeOk \in BOOLEAN :
        /\ Odd(~planeOk) <= odd
        /\ odd' = odd - Odd(~planeOk)
        /\ IF planeOk
           THEN /\ dec' = [dec EXCEPT !.bits = bits]
                /\ resultData' =
                      [resultData EXCEPT
                         !.channels = makeNChannels(dec.numChannels, dec.size,
                                                    dec.namePrefix).channels,
                         !.bufs = makeNChannels(dec.numChannels, dec.size,
                                                dec.namePrefix).bufs]
                /\ pc' = "dec_cms"
                /\ trace' = [trace EXCEPT !.d.allocated = TRUE]
                /\ UNCHANGED live
           ELSE /\ Throw("decode", trace)
                /\ UNCHANGED <<dec, resultData>>
    /\ UNCHANGED <<channelSelector, mainImage, src, num_aux, i, auxLayerName,
                   auxImgData, scaledResultData, amn, batch, other>>

\* What the handle and the colour engine answer while the transform is built.
IccOutcomes == {"size0", "notexist", "readerr", "badprofile", "norec709", "noxform", "ok"}

\* lines 228-231 left out: the transform is returned untested
getCmsTransformUntested(o) ==
    IF o \in {"size0", "notexist", "readerr", "badprofile", "norec709"}
    THEN [transform |-> FALSE,
          held |-> IF o = "norec709" THEN {"toneCurve"} ELSE {}, warned |-> FALSE]
    ELSE [transform |-> TRUE, held |-> {"toneCurve", "transform"}, warned |-> FALSE]

\* lines 180-234: the transform, and the handles still held when the lambda returns
\* (srcProfile and rec709Profile have guards; the tone curve of line 213 has none)
getCmsTransform(o) ==
    IF o = "size0" THEN [transform |-> FALSE, held |-> {}, warned |-> FALSE]
    ELSE IF o = "notexist" THEN [transform |-> FALSE, held |-> {}, warned |-> FALSE]
    ELSE IF o = "readerr" THEN [transform |-> FALSE, held |-> {}, warned |-> TRUE]
    ELSE IF o = "badprofile" THEN [transform |-> FALSE, held |-> {}, warned |-> TRUE]
    ELSE IF o = "norec709"
         THEN [transform |-> FALSE, held |-> ({"srcProfile", "toneCurve"} \ Guarded),
               warned |-> TRUE]
    ELSE IF o = "noxform"
         THEN [transform |-> FALSE,
               held |-> ({"srcProfile", "toneCurve", "rec709Profile"} \ Guarded),
               warned |-> TRUE]
    ELSE [transform |-> TRUE,
          held |-> ({"srcProfile", "toneCurve", "rec709Profile"} \ Guarded) \cup {"transform"},
          warned |-> FALSE]

Pending(n) == [kind |-> "none", st |-> [r \in 0..(n - 1) |-> "pending"]]
\* ThreadPool::global().parallelForAsync(0, n, work of `kind`, priority)
parallelForAsync(kind, n) == [Pending(n) EXCEPT !.kind = kind]

\* line 244 left out
PremulKept(flag) == flag

\* line 244: lcms cannot premultiply, the flag is cleared
PremulAfterIcc(flag) == FALSE

\* lines 236-251 and 275: getCmsTransform is called once; with a transform the flag
\* is cleared, the scratch arrays are made and the ICC rows are dispatched; without,
\* the linearizing rows are dispatched
DecodeCms ==
    /\ pc = "dec_cms"
    /\ \E o \in IccOutcomes :
        LET r == getCmsTransform(o) IN
        /\ Odd(o # "size0") <= odd
        /\ odd' = odd - Odd(o # "size0")
        /\ live' = live \cup r.held
        /\ dec' = [dec EXCEPT !.transform = r.transform]
        /\ trace' = [trace EXCEPT !.d.iccAttempts = @ + 1, !.d.icc = o]
        /\ IF r.transform
           THEN /\ resultData' = [resultData EXCEPT
                                    !.hasPremultipliedAlpha = PremulAfterIcc(@)]
                /\ src' = [k \in 1..(dec.size[1] * dec.size[2] * dec.numChannels) |-> Zero]
                /\ batch' = parallelForAsync("icc", dec.size[2])
                /\ pc' = "icc_wait"
           ELSE /\ batch' = parallelForAsync("nclx", dec.size[2])
                /\ pc' = "nclx_wait"
                /\ UNCHANGED <<resultData, src>>
    /\ UNCHANGED <<channelSelector, mainImage, num_aux, i, auxLayerName,
                   auxImgData, scaledResultData, amn, other>>

\* line 255: src_offset = y * n_samples_per_row
IccSrcOffset(d, y) == y * (d.size[1] * d.numChannels)

\* line 264 with numChannels for 4
IccDstOffsetByChannels(d, y) == y * d.size[1] * d.numChannels

\* line 264: dst_offset = y * size.x() * 4
IccDstOffset(d, y) == y * d.size[1] * 4

\* lines 254-266: row y of the ICC path, on the scratch array ...
IccRowSrc(s, d, y) ==
    LET n == d.size[1] * d.numChannels
        o == IccSrcOffset(d, y)
    IN [k \in 1..Len(s) |->
          IF (k - 1) \in o..(o + n - 1)
          THEN Norm(Raw(y, k - 1 - o), d.bits)
          ELSE s[k]]

\* ... and cmsDoTransform of the row into channels[0].data() + y * width * 4
IccRowDst(img, s, d, y) ==
    LET w == d.size[1]
        s2 == IccRowSrc(s, d, y)
        so == IccSrcOffset(d, y)
        o == IccDstOffset(d, y)
        b == img.channels[1].buf
    IN [img EXCEPT !.bufs[b] =
          [k \in 1..Len(img.bufs[b]) |->
             IF (k - 1) \in o..(o + w * 4 - 1)
             THEN LET px == ((k - 1) - o) \div 4
                      c == ((k - 1) - o) % 4
                  IN IccOut(SubSeq(s2, so + px * d.numChannels + 1,
                                       so + px * d.numChannels + d.numChannels), c)
             ELSE img.bufs[b][k]]]

\* The elements of the shared arrays a row works on, as <<array, index>>: "src" is
\* the scratch array, "dst" the buffer of resultData, "scaled" that of
\* scaledResultData, "aux" that of the image being resized.
\* lines 255-265: the scratch samples of row y, and size.x() RGBA pixels from
\* dst_offset on
IccWrites(d, y) ==
    {<<"src", IccSrcOffset(d, y) + x>> : x \in 0..(d.size[1] * d.numChannels - 1)}
      \cup {<<"dst", IccDstOffset(d, y) + j>> : j \in 0..(d.size[1] * 4 - 1)}

\* line 265: cmsDoTransform reads size.x() pixels from &src[src_offset]
IccReads(d, y) ==
    {<<"src", IccSrcOffset(d, y) + x>> : x \in 0..(d.size[1] * d.numChannels - 1)}

\* lines 278-292: row y of the NCLX path: alpha normalized, colour also linearized
NclxSample(d, y, x, c) ==
    IF c = 3 THEN Norm(Raw(y, x * d.numChannels + c), d.bits)
    ELSE toLinear(Norm(Raw(y, x * d.numChannels + c), d.bits))

NclxRow(img, d, y) ==
    LET b == img.channels[1].buf IN
    [img EXCEPT !.bufs[b] =
       [k \in 1..Len(img.bufs[b]) |->
          LET idx == (k - 1) \div 4
              c == (k - 1) % 4
          IN IF idx \div d.size[1] = y /\ c < d.numChannels
             THEN NclxSample(d, y, idx % d.size[1], c)
             ELSE img.bufs[b][k]]]

\* lines 279-289: channels[c].at(i) for i = y * size.x() + x; it reads the plane only
NclxWrites(d, y) ==
    {<<"dst", (y * d.size[1] + x) * 4 + c>> :
        x \in 0..(d.size[1] - 1), c \in 0..(d.numChannels - 1)}

\* ------------------------------------------------------------- resizeImage
Max(a, b) == IF a > b THEN a ELSE b
Min(a, b) == IF a < b THEN a ELSE b

\* lines 401-416 for one axis: with scale = srcSize / dstSize, the source coordinate
\* (dst + 0.5) * scale - 0.5 is the fraction num / den below; i0 and i1 are the two
\* sampled indices, w1 = coordinate - i0 (as a fraction over den) and w0 = 1 - w1
Axis(dst, srcSize, dstSize) ==
    LET num == (2 * dst + 1) * srcSize - dstSize
        den == 2 * dstSize
        i0 == Max(num \div den, 0)
        i1 == Min(i0 + 1, srcSize - 1)
    IN [i0 |-> i0, i1 |-> i1, w1 |-> num - i0 * den, w0 |-> den - (num - i0 * den),
        den |-> den]

\* line 431: wy0 * (wx0 * p00 + wx1 * p01) + wy1 * (wx0 * p10 + wx1 * p11)
Interpolated(ax, ay, p00, p01, p10, p11) ==
    <<"bilerp", <<ax.w0, ax.w1, ax.den>>, <<ay.w0, ay.w1, ay.den>>, <<p00, p01, p10, p11>>>>

\* lines 400-435: row dstY of the resampled image
ResizeRow(scaled, img, dstY) ==
    LET size == FrontSize(img)
        targetSize == FrontSize(scaled)
        numChannels == Len(img.channels)
        ay == Axis(dstY, size[2], targetSize[2])
        b == scaled.channels[1].buf
    IN [scaled EXCEPT !.bufs[b] =
          [k \in 1..Len(scaled.bufs[b]) |->
             LET dstIdx == (k - 1) \div 4
                 c == (k - 1) % 4
                 dstX == dstIdx % targetSize[1]
                 ax == Axis(dstX, size[1], targetSize[1])
             IN IF dstIdx \div targetSize[1] = dstY /\ c < numChannels
                THEN Interpolated(ax, ay,
                        At(img, c, ay.i0 * size[1] + ax.i0),
                        At(img, c, ay.i0 * size[1] + ax.i1),
                        At(img, c, ay.i1 * size[1] + ax.i0),
                        At(img, c, ay.i1 * size[1] + ax.i1))
                ELSE scaled.bufs[b][k]]]

\* lines 418 and 432: dstChannels[c].at(dstIdx) for dstIdx = dstY * targetSize.x() + dstX
ResizeWrites(targetSize, numChannels, dstY) ==
    {<<"scaled", (dstY * targetSize[1] + dstX) * 4 + c>> :
        dstX \in 0..(targetSize[1] - 1), c \in 0..(numChannels - 1)}

\* lines 420-429: srcChannels[c].at(srcIdx) for the four source indices
ResizeReads(size, targetSize, numChannels, dstY) ==
    LET ay == Axis(dstY, size[2], targetSize[2]) IN
    UNION {LET ax == Axis(dstX, size[1], targetSize[1]) IN
           {<<"aux", (yy * size[1] + xx) * 4 + c>> :
               yy \in {ay.i0, ay.i1}, xx \in {ax.i0, ax.i1}, c \in 0..(numChannels - 1)}
           : dstX \in 0..(targetSize[1] - 1)}

\* the test of line 384 with != for ==
SameSizeInverted(size, targetSize) == size # targetSize

\* lines 383-386: nothing to do when the sizes agree
SameSize(size, targetSize) == size = targetSize

\* lines 382-397: the early return, or the new channels and the dispatch of the rows
resizeImage ==
    /\ pc = "resize"
    /\ LET size == FrontSize(auxImgData)
           targetSize == FrontSize(mainImage)
       IN IF SameSize(size, targetSize)
          THEN /\ pc' = "append"
               /\ trace' = [trace EXCEPT !.resized = "same", !.d = NoDecTrace]
               /\ UNCHANGED <<scaledResultData, batch>>
          ELSE /\ scaledResultData' =
                     [NoImage EXCEPT
                        !.hasPremultipliedAlpha = auxImgData.hasPremultipliedAlpha,
                        !.channels = makeNChannels(Len(auxImgData.channels), targetSize,
                                                   auxLayerName).channels,
                        !.bufs = makeNChannels(Len(auxImgData.channels), targetSize,
                                               auxLayerName).bufs]
               /\ batch' = parallelForAsync("resize", targetSize[2])
               /\ pc' = "resize_wait"
               /\ trace' = [trace EXCEPT !.resized = "scaled", !.d = NoDecTrace]
    /\ dec' = NoDec
    /\ UNCHANGED <<channelSelector, live, mainImage, resultData, src, num_aux, i,
                   auxLayerName, auxImgData, amn, other>>
    /\ UNCHANGED odd

\* -------------------------------------------------------- applyAppleGainMap
\* row y of the fusion: the primary's colour samples scaled by the gain map's first
\* channel and the maker note's headroom
GainRow(img, gainMap, note, y) ==
    LET w == FrontSize(img)[1]
        b == img.channels[1].buf
    IN [img EXCEPT !.bufs[b] =
          [k \in 1..Len(img.bufs[b]) |->
             LET idx == (k - 1) \div 4
                 c == (k - 1) % 4
             IN IF idx \div w = y /\ c < 3
                THEN <<"gain", img.bufs[b][k], At(gainMap, 0, idx), note>>
                ELSE img.bufs[b][k]]]

\* --------------------------------------------------------------- the pool
Running(st) == Cardinality({r \in DOMAIN st : st[r] = "running"})

\* a worker takes row r of the load's batch
RowStart ==
    /\ batch.kind # "none"
    /\ Running(batch.st) + Running(other.st) < NumThreads
    /\ \E r \in DOMAIN batch.st :
        /\ batch.st[r] = "pending"
        /\ batch' = [batch EXCEPT !.st[r] = "running"]
    /\ UNCHANGED <<pc, channelSelector, live, mainImage, dec, resultData, src, num_aux,
                   i, auxLayerName, auxImgData, scaledResultData, amn, other, trace>>
    /\ UNCHANGED odd

\* what row r of the load's batch writes, and what it reads of the shared arrays
RowWrites(r) ==
    CASE batch.kind = "icc" -> IccWrites(dec, r)
      [] batch.kind = "nclx" -> NclxWrites(dec, r)
      [] batch.kind = "resize" ->
            ResizeWrites(FrontSize(scaledResultData), Len(auxImgData.channels), r)
      [] OTHER -> {}

RowReads(r) ==
    CASE batch.kind = "icc" -> IccReads(dec, r)
      [] batch.kind = "resize" ->
            ResizeReads(FrontSize(auxImgData), FrontSize(scaledResultData),
                        Len(auxImgData.channels), r)
      [] OTHER -> {}

\* the work function of the batch, applied to row r
RowFinish ==
    /\ batch.kind # "none"
    /\ \E r \in DOMAIN batch.st :
        /\ batch.st[r] = "running"
        /\ batch' = [batch EXCEPT !.st[r] = "done"]
        /\ src' = IF batch.kind = "icc" THEN IccRowSrc(src, dec, r) ELSE src
        /\ resultData' = CASE batch.kind = "icc" -> IccRowDst(resultData, src, dec, r)
                           [] batch.kind = "nclx" -> NclxRow(resultData, dec, r)
                           [] OTHER -> resultData
        /\ scaledResultData' = IF batch.kind = "resize"
                               THEN ResizeRow(scaledResultData, auxImgData, r)
                               ELSE scaledResultData
        /\ mainImage' = IF batch.kind = "fuse"
                        THEN GainRow(mainImage, auxImgData, amn, r)
                        ELSE mainImage
    /\ UNCHANGED <<pc, channelSelector, live, dec, num_aux, i, auxLayerName,
                   auxImgData, amn, other, trace>>
    /\ UNCHANGED odd

\* co_await parallelForAsync(...) resumes: every index of the range has been processed
BatchComplete(b) == \A r \in DOMAIN b.st : b.st[r] = "done"

\* ------------------------------------------------- decodeImage, the returns
\* co_return resultData: to line 332 (the primary) or to line 472 (a layer)
ReturnImage(img) ==
    /\ IF dec.caller = "primary"
       THEN /\ mainImage' = img
            /\ pc' = "aux_count"
            /\ UNCHANGED auxImgData
       ELSE /\ auxImgData' = img
            /\ pc' = "resize"
            /\ UNCHANGED mainImage
    /\ resultData' = NoImage
    /\ src' = <<>>
    /\ batch' = NoBatch
    /\ UNCHANGED dec

\* the co_return of line 270 left out: the linearizing rows of line 275 follow
IccFallThrough ==
    /\ pc = "icc_wait"
    /\ BatchComplete(batch)
    /\ batch' = parallelForAsync("nclx", dec.size[2])
    /\ pc' = "nclx_wait"
    /\ live' = live \ {"transform"}
    /\ src' = <<>>
    /\ UNCHANGED <<channelSelector, mainImage, dec, resultData, num_aux, i, auxLayerName,
                   auxImgData, scaledResultData, amn, other, odd, trace>>

\* line 270: the ICC rows are done; transformGuard and imgGuard run
IccReturn ==
    /\ pc = "icc_wait"
    /\ BatchComplete(batch)
    /\ ReturnImage(resultData)
    /\ live' = live \ {"transform", "img"}
    /\ UNCHANGED <<channelSelector, num_aux, i, auxLayerName, scaledResultData, amn,
                   other, trace>>
    /\ UNCHANGED odd

heif_color_primaries_ITU_R_BT_709_5 == 1

\* what heif_image_handle_get_nclx_color_profile answers
NclxOutcomes ==
    {[error |-> "does_not_exist", color_primaries |-> 0, chroma |-> "none"],
     [error |-> "other", color_primaries |-> 0, chroma |-> "none"],
     [error |-> "ok", color_primaries |-> heif_color_primaries_ITU_R_BT_709_5,
      chroma |-> Rec709Chroma],
     [error |-> "ok", color_primaries |-> 9,   \* ITU-R BT.2020
      chroma |-> "bt2020"],
     [error |-> "ok", color_primaries |-> 2,   \* unspecified
      chroma |-> "unspecified"]}

\* the test of line 311 with == for !=
NeedsConversionInverted(nclx) == nclx.color_primaries = heif_color_primaries_ITU_R_BT_709_5

\* line 311
NeedsConversion(nclx) == nclx.color_primaries # heif_color_primaries_ITU_R_BT_709_5

\* lines 296-328: the matrix after the linearizing rows
NclxMatrix(img, nclx) ==
    IF nclx.error # "ok" THEN img
    ELSE IF NeedsConversion(nclx)
         THEN [img EXCEPT !.toRec709 = PrimariesMatrix(nclx.chroma)]
         ELSE img

\* lines 296-328: the linearizing rows are done; the NCLX descriptor is read, and
\* released by nclxGuard; imgGuard runs
NclxReturn ==
    /\ pc = "nclx_wait"
    /\ BatchComplete(batch)
    /\ \E nclx \in NclxOutcomes :
        /\ Odd(nclx.error # "does_not_exist") <= odd
        /\ odd' = odd - Odd(nclx.error # "does_not_exist")
        /\ ReturnImage(NclxMatrix(resultData, nclx))
        /\ trace' = [trace EXCEPT !.d.nclx = nclx]
    /\ live' = (live \cup {"nclx"}) \ {"nclx", "img"}
    /\ UNCHANGED <<channelSelector, num_aux, i, auxLayerName, scaledResultData, amn,
                   other>>

\* --------------------------------------------------------- auxiliary images
AuxTypes == {NoString, sAppleGainTag, sHdrGainMap, sDepth}

\* lines 444-449
AuxCount ==
    /\ pc = "aux_count"
    /\ \E n \in 0..MaxAux :
        /\ num_aux' = n
        /\ i' = 0
    /\ pc' = "aux_loop"
    /\ dec' = NoDec
    /\ trace' = [trace EXCEPT !.d = NoDecTrace]
    /\ UNCHANGED <<channelSelector, live, mainImage, resultData, src,
                   auxLayerName, auxImgData, scaledResultData, amn, batch, other>>
    /\ UNCHANGED odd

\* what is known of a layer the loop has dealt with
Layer(idx, tag, name, selected) ==
    [idx |-> idx, tag |-> tag, name |-> name, selected |-> selected, first |-> 0,
     count |-> 0, note |-> NoNote, fused |-> FALSE]

\* the test of line 468 left out: every layer is taken
SkippedNever(name, filter) == FALSE

\* lines 468-470: a layer the selector does not match is passed over
Skipped(name, filter) == ~matchesFuzzy(name, filter)

\* lines 451-472: the layer's handle and type, its name, the selector, and the call
\* of decodeImage.  Neither `continue` releases auxImgHandle, nor does anything else.
AuxBegin ==
    /\ pc = "aux_loop"
    /\ i < num_aux
    /\ \E handleOk \in BOOLEAN, typeOk \in BOOLEAN, auxType \in AuxTypes :
        LET name == LayerName(auxType, num_aux)
            cost == Odd(~handleOk) + Odd(~typeOk) + Odd(auxType # sDepth)
        IN
        /\ cost <= odd
        /\ odd' = odd - cost
        /\ IF ~handleOk
           THEN /\ i' = i + 1
                /\ UNCHANGED <<pc, live, dec, auxLayerName, trace>>
           ELSE IF ~typeOk
           THEN /\ i' = i + 1
                /\ live' = live \cup {"auxHandle"}
                /\ UNCHANGED <<pc, dec, auxLayerName, trace>>
           ELSE IF Skipped(name, channelSelector)
           THEN /\ i' = i + 1
                /\ live' = (live \cup {"auxHandle", "auxType"}) \ {"auxType"}
                /\ trace' = [trace EXCEPT !.layers = Append(@, Layer(i, auxType, name, FALSE))]
                /\ UNCHANGED <<pc, dec, auxLayerName>>
           ELSE /\ live' = live \cup {"auxHandle", "auxType"}
                /\ auxLayerName' = name
                /\ dec' = [NoDec EXCEPT !.caller = "aux", !.namePrefix = name]
                /\ trace' = [trace EXCEPT !.d = NoDecTrace,
                                          !.layers = Append(@, Layer(i, auxType, name, TRUE))]
                /\ pc' = "dec_probe"
                /\ UNCHANGED i
    /\ UNCHANGED <<channelSelector, mainImage, resultData, src, num_aux, auxImgData,
                   scaledResultData, amn, batch, other>>

\* line 439 reached without the co_await of line 397
ResizeReturnNoAwait ==
    /\ pc = "resize_wait"
    /\ auxImgData' = scaledResultData
    /\ scaledResultData' = NoImage
    /\ batch' = NoBatch
    /\ pc' = "append"
    /\ UNCHANGED <<channelSelector, live, mainImage, dec, resultData, src, num_aux, i,
                   auxLayerName, amn, other, odd, trace>>

\* line 439: the rows are done; resultData = std::move(scaledResultData)
ResizeReturn ==
    /\ pc = "resize_wait"
    /\ BatchComplete(batch)
    /\ auxImgData' = scaledResultData
    /\ scaledResultData' = NoImage
    /\ batch' = NoBatch
    /\ pc' = "append"
    /\ UNCHANGED <<channelSelector, live, mainImage, dec, resultData, src, num_aux, i,
                   auxLayerName, amn, other, trace>>
    /\ UNCHANGED odd

\* -------------------------------------------------------- findAppleMakerNote
\* An EXIF block of the primary handle is one of: too small (size <= 4), unreadable,
\* undecodable, decodable without a maker-note entry, with a maker note of another
\* vendor, with the vendor's maker note.
ExifKinds == {"small", "unreadable", "undecodable", "nonote", "nonvendor", "apple"}

RECURSIVE SeqsUpTo(_, _)
SeqsUpTo(S, n) ==
    IF n = 0 THEN {<<>>}
    ELSE SeqsUpTo(S, n - 1) \cup
         {Append(q, x) : q \in {t \in SeqsUpTo(S, n - 1) : Len(t) = n - 1}, x \in S}

ExifLists == SeqsUpTo(ExifKinds, MaxExif)

\* Line 371 does not test the entry exif_data_get_entry returns; for a block without
\* a maker-note entry line 372 reads through a null pointer.  What the build does
\* then: it stops the process, or the bytes read are not the vendor's signature, or
\* they are.
NullReads == {"crash", "skip", "garbage"}

\* lines 350-379, from block k on
RECURSIVE MakerNoteFrom(_, _, _)
MakerNoteFrom(blocks, k, nullRead) ==
    IF k > Len(blocks) THEN NoNote
    ELSE IF blocks[k] \in {"small", "unreadable", "undecodable", "nonvendor"}
         THEN MakerNoteFrom(blocks, k + 1, nullRead)
    ELSE IF blocks[k] = "apple" THEN <<"note", k, "apple">>
    ELSE IF nullRead = "crash" THEN <<"crash">>
    ELSE IF nullRead = "skip" THEN MakerNoteFrom(blocks, k + 1, nullRead)
    ELSE <<"note", k, "garbage">>

\* lines 335-380
findAppleMakerNote(blocks, nullRead) == MakerNoteFrom(blocks, 1, nullRead)

\* ------------------------------------------------- append, fusion, the return
\* line 474 with begin() for end(): the layer's channels go in front
AppendChannelsFront(img, aux) ==
    [img EXCEPT
       !.channels = [c \in 1..Len(aux.channels) |->
                       [aux.channels[c] EXCEPT !.buf = @ + Len(img.bufs)]] \o @,
       !.bufs = @ \o aux.bufs]

\* line 474: channels.insert(end, aux.begin, aux.end); the channels keep their buffers
AppendChannels(img, aux) ==
    [img EXCEPT
       !.channels = @ \o [c \in 1..Len(aux.channels) |->
                            [aux.channels[c] EXCEPT !.buf = @ + Len(img.bufs)]],
       !.bufs = @ \o aux.bufs]

\* line 477
WantsFusion(name) == IsAppleGainMap(name)

\* lines 474-477: the layer's channels are appended; a gain-map layer goes on to
\* the maker note
AppendLayer ==
    /\ pc = "append"
    /\ mainImage' = AppendChannels(mainImage, auxImgData)
    /\ trace' = [trace EXCEPT
                   !.layers[Len(trace.layers)].first = Len(mainImage.channels) + 1,
                   !.layers[Len(trace.layers)].count = Len(auxImgData.channels)]
    /\ pc' = IF WantsFusion(auxLayerName) THEN "find_note" ELSE "aux_next"
    /\ UNCHANGED <<channelSelector, live, dec, resultData, src, num_aux, i, auxLayerName,
                   auxImgData, scaledResultData, amn, batch, other, odd>>

\* line 479: auto amn = findAppleMakerNote(); exifGuard has run when it returns
FindNote ==
    /\ pc = "find_note"
    /\ \E blocks \in ExifLists, nullRead \in NullReads :
        LET note == findAppleMakerNote(blocks, nullRead) IN
        /\ amn' = note
        /\ trace' = [trace EXCEPT !.exif = blocks,
                                  !.layers[Len(trace.layers)].note = note]
        /\ pc' = IF note = <<"crash">> THEN "crashed" ELSE "note_found"
    /\ UNCHANGED <<channelSelector, live, mainImage, dec, resultData, src, num_aux, i,
                   auxLayerName, auxImgData, scaledResultData, batch, other, odd>>

\* the test of line 480 left out
HasNoteUntested(note) == TRUE

\* line 480: if (amn)
HasNote(note) == note # NoNote

\* lines 480-488: with a maker note, applyAppleGainMap dispatches the fusion rows
ApplyGainMap ==
    /\ pc = "note_found"
    /\ IF HasNote(amn)
       THEN /\ pc' = "fuse_wait"
            /\ batch' = parallelForAsync("fuse", FrontSize(mainImage)[2])
            /\ trace' = [trace EXCEPT !.exif = <<>>,
                                      !.layers[Len(trace.layers)].fused = TRUE]
       ELSE /\ pc' = "aux_next"
            /\ trace' = [trace EXCEPT !.exif = <<>>]
            /\ UNCHANGED batch
    /\ UNCHANGED <<channelSelector, live, mainImage, dec, resultData, src, num_aux, i,
                   auxLayerName, auxImgData, scaledResultData, amn, other, odd>>

\* line 482: the fusion rows are done
FuseReturn ==
    /\ pc = "fuse_wait"
    /\ BatchComplete(batch)
    /\ batch' = NoBatch
    /\ pc' = "aux_next"
    /\ UNCHANGED <<channelSelector, live, mainImage, dec, resultData, src, num_aux, i,
                   auxLayerName, auxImgData, scaledResultData, amn, other, trace>>
    /\ UNCHANGED odd

\* line 490: the iteration ends; typeGuard runs, auxImgData and amn go out of scope
AuxNext ==
    /\ pc = "aux_next"
    /\ live' = live \ {"auxType"}
    /\ auxImgData' = NoImage
    /\ auxLayerName' = <<>>
    /\ amn' = NoNote
    /\ i' = i + 1
    /\ pc' = "aux_loop"
    /\ trace' = [trace EXCEPT !.resized = "no"]
    /\ UNCHANGED <<channelSelector, mainImage, dec, resultData, src, num_aux,
                   scaledResultData, batch, other>>
    /\ UNCHANGED odd

\* line 493: co_return result; handleGuard and contextGuard run
LoadReturn ==
    /\ pc = "aux_loop"
    /\ i >= num_aux
    /\ pc' = "done"
    /\ live' = live \ {"handle", "ctx"}
    /\ UNCHANGED <<channelSelector, mainImage, dec, resultData, src, num_aux, i,
                   auxLayerName, auxImgData, scaledResultData, amn, batch, other, trace>>
    /\ UNCHANGED odd

Next ==
    \/ AllocContext
    \/ ReadContext
    \/ DecodeProbe
    \/ DecodePixels
    \/ DecodePlane
    \/ DecodeCms
    \/ RowStart
    \/ RowFinish
    \/ IccReturn
    \/ NclxReturn
    \/ AuxCount
    \/ AuxBegin
    \/ resizeImage
    \/ ResizeReturn
    \/ AppendLayer
    \/ FindNote
    \/ ApplyGainMap
    \/ FuseReturn
    \/ AuxNext
    \/ LoadReturn

Spec == Init /\ [][Next]_vars

\* ------------------------------------------------------------ another load
\* Another load on the same pool, seen through its row batches only.
loadVars == <<pc, channelSelector, live, mainImage, dec, resultData, src, num_aux, i,
              auxLayerName, auxImgData, scaledResultData, amn, batch, odd, trace>>

OtherDispatch ==
    /\ other.left > 0
    /\ other.st = <<>>
    /\ other' = [left |-> other.left - 1, st |-> Pending(MaxDim).st]
    /\ UNCHANGED loadVars

OtherRowStart ==
    /\ Running(batch.st) + Running(other.st) < NumThreads
    /\ \E r \in DOMAIN other.st :
        /\ other.st[r] = "pending"
        /\ other' = [other EXCEPT !.st[r] = "running"]
    /\ UNCHANGED loadVars

OtherRowFinish ==
    /\ \E r \in DOMAIN other.st :
        /\ other.st[r] = "running"
        /\ other' = [other EXCEPT !.st[r] = "done"]
    /\ UNCHANGED loadVars

OtherResume ==
    /\ other.st # <<>>
    /\ BatchComplete(other)
    /\ other' = [other EXCEPT !.st = <<>>]
    /\ UNCHANGED loadVars

NextPool ==
    \/ Next
    \/ OtherDispatch
    \/ OtherRowStart
    \/ OtherRowFinish
    \/ OtherResume

SpecPool == InitPool /\ [][NextPool]_vars

\* ================================================================== claims
\* decodeImage has returned: to line 332 with the primary, to line 472 with a layer
AtReturn == pc \in {"aux_count", "resize"}
Returned == IF pc = "aux_count" THEN mainImage ELSE auxImgData
\* decodeImage has read the size of its handle
SizeRead == dec.caller # "none" /\ pc # "dec_probe"

\* C1: a handle of width 0 or height 0 makes decodeImage fail before heif_decode_image
\* is called and before a channel buffer or the scratch array exists.
C1_ZeroAreaFailsBeforeDecode ==
    (SizeRead /\ (dec.size[1] = 0 \/ dec.size[2] = 0)) =>
        /\ pc = "failed"
        /\ trace.failedIn = "decode"
        /\ ~trace.d.pixelDecode
        /\ ~trace.d.allocated
        /\ "img" \notin live
        /\ resultData.channels = <<>> /\ resultData.bufs = <<>>
        /\ src = <<>>

C1_Witness ==
    /\ pc = "failed"
    /\ dec.caller = "aux"
    /\ dec.size[1] > 0 /\ dec.size[2] = 0

\* C2: an image decodeImage returns after the ICC path has hasPremultipliedAlpha
\* false, whatever the handle's flags were; the flag is false while the rows run too.
C2_IccClearsPremultiplied ==
    /\ (trace.d.icc = "ok" /\ AtReturn) => ~Returned.hasPremultipliedAlpha
    /\ pc = "icc_wait" => ~resultData.hasPremultipliedAlpha

C2_Witness ==
    /\ AtReturn
    /\ trace.d.icc = "ok"
    /\ trace.d.flagIn
    /\ Len(Returned.channels) = 4

\* C4: when the transform cannot be built, decodeImage does not fail: getCmsTransform
\* has been called once and not again, no scratch array exists, the linearizing rows
\* run, and the image returned holds the normalized samples of the plane, linearized
\* for the colour channels.
IccFailures == {"readerr", "badprofile", "norec709", "noxform"}

C4_IccFailureFallsBack ==
    /\ trace.d.iccAttempts <= 1
    /\ (SizeRead /\ pc \in {"icc_wait", "nclx_wait", "aux_count", "resize"})
          => trace.d.iccAttempts = 1
    /\ trace.d.icc \in IccFailures =>
          /\ pc \in {"nclx_wait", "aux_count", "resize"}
          /\ src = <<>>
          /\ ~dec.transform
          /\ "transform" \notin live
          /\ AtReturn =>
                \A y \in 0..(dec.size[2] - 1), x \in 0..(dec.size[1] - 1),
                   c \in 0..(dec.numChannels - 1) :
                    At(Returned, c, y * dec.size[1] + x) =
                        IF c = 3 THEN <<"norm", Raw(y, x * dec.numChannels + c), 2 ^ dec.bits - 1>>
                        ELSE <<"lin", <<"norm", Raw(y, x * dec.numChannels + c), 2 ^ dec.bits - 1>>>>

C4_Witness ==
    /\ AtReturn
    /\ trace.d.icc = "noxform"
    /\ dec.numChannels = 4

\* C10: the image the NCLX path returns has the identity as toRec709 when the handle
\* has no NCLX descriptor, when it cannot be read and when its primaries are
\* Rec.709's; otherwise it has the matrix computed from the descriptor's primaries.
C10_MatrixOnlyForOtherPrimaries ==
    (AtReturn /\ trace.d.icc # "ok") =>
        LET nclx == trace.d.nclx IN
        /\ nclx.error \in {"does_not_exist", "other"} => Returned.toRec709 = Identity
        /\ (nclx.error = "ok" /\ nclx.color_primaries = 1) => Returned.toRec709 = Identity
        /\ (nclx.error = "ok" /\ nclx.color_primaries # 1)
              => Returned.toRec709 = <<"RGBtoXYZ*XYZtoRGB", nclx.chroma, "rec709">>
        /\ Returned.toRec709 # Identity <=> (nclx.error = "ok" /\ nclx.color_primaries # 1)

C10_Witness ==
    /\ AtReturn
    /\ trace.d.nclx.error = "ok"
    /\ trace.d.nclx.color_primaries = 9
    /\ Returned.toRec709 # Identity

\* the loop has finished with layer k of trace.layers
LayerDecided(k) == trace.layers[k].idx < i \/ pc \in {"fuse_wait", "aux_next"}

\* the channels of layer L are in the primary image's channel list, under its name
ChannelsPresent(L) ==
    /\ L.count > 0
    /\ L.first + L.count - 1 <= Len(mainImage.channels)
    /\ \A c \in 0..(L.count - 1) :
          SubSeq(mainImage.channels[L.first + c].name, 1, Len(L.name)) = L.name

BothMarkers(name) == Contains(name, sApple) /\ Contains(name, sHdrGainMap)

\* how many fusions a sample of the primary image has been through
RECURSIVE GainDepth(_)
GainDepth(v) == IF v[1] = "gain" THEN 1 + GainDepth(v[2]) ELSE 0

\* C3 as stated: a layer is fused exactly if its name has both markers and a maker
\* note was extracted, and every other layer has its channels in the result, unfused.
C3_FusedIffMarkersAndNote ==
    \A k \in 1..Len(trace.layers) :
        LET L == trace.layers[k] IN
        LayerDecided(k) =>
            /\ L.fused <=> (BothMarkers(L.name) /\ L.note[1] = "note")
            /\ ~L.fused => ChannelsPresent(L)

\* C3, amended: of the layers the selector matched and decodeImage decoded, one is
\* fused exactly if its name has both markers and findAppleMakerNote returned a maker
\* note, and each has its channels in the primary image's channel list; a layer the
\* selector did not match is neither appended nor fused.  The primary's samples have
\* been through as many fusions as there are fused layers.
C3_SelectedFusedIffMarkersAndNote ==
    /\ \A k \in 1..Len(trace.layers) :
          LET L == trace.layers[k] IN
          LayerDecided(k) =>
              /\ L.fused <=> (L.selected /\ BothMarkers(L.name) /\ L.note[1] = "note")
              /\ L.selected => ChannelsPresent(L)
              /\ ~L.selected => (L.count = 0 /\ ~L.fused)
    /\ pc \in {"aux_loop", "aux_next", "done"} =>
          GainDepth(mainImage.bufs[1][1]) =
              Cardinality({k \in 1..Len(trace.layers) : trace.layers[k].fused})

C3_Witness ==
    /\ pc = "done"
    /\ Len(trace.layers) = 2
    /\ trace.layers[1].fused /\ trace.layers[1].note[1] = "note"
    /\ ~trace.layers[2].fused /\ trace.layers[2].selected
    /\ GainDepth(mainImage.bufs[1][1]) = 1

\* C5 as stated: a failure while an auxiliary layer is decoded does not fail load.
C5_LayerFailureDoesNotFailLoad == ~(pc = "failed" /\ dec.caller = "aux")

\* C6 as stated: when load has returned or failed, no native handle is held.
C6_AllHandlesReleased == pc \in {"done", "failed"} => live = {}

\* C7: the load leaves a parallel-for only when every row of the batch is done, and
\* while a batch of its own exists it is suspended, whatever another load has on
\* the pool.
Waits == {"icc_wait", "nclx_wait", "resize_wait", "fuse_wait"}

C7_BatchIsBarrier ==
    /\ [](batch.kind # "none" => pc \in Waits)
    /\ [][(batch.kind # "none" /\ pc' # pc)
            => \A r \in DOMAIN batch.st : batch.st[r] = "done"]_vars

C7_Witness ==
    /\ batch.kind = "fuse"
    /\ trace.resized = "scaled"
    /\ \E r \in DOMAIN batch.st : batch.st[r] = "running"
    /\ \E r \in DOMAIN other.st : other.st[r] = "running"

\* the maker note of the first block that holds the vendor's, if any
FirstVendorNote(blocks) ==
    IF \E k \in 1..Len(blocks) : blocks[k] = "apple"
    THEN <<"note",
           CHOOSE k \in 1..Len(blocks) :
               blocks[k] = "apple" /\ \A j \in 1..(k - 1) : blocks[j] # "apple",
           "apple">>
    ELSE NoNote

\* C8 as stated: findAppleMakerNote never stops the load, and returns the maker note
\* of the first block that holds the vendor's, or nothing.
C8_MakerNoteLookupIsTotal ==
    /\ pc # "crashed"
    /\ pc = "note_found" => amn = FirstVendorNote(trace.exif)

\* C9: resizeImage on an image of the target size changes nothing of it and
\* dispatches no rows.
C9_ResizeSameSizeIsIdentity ==
    [][(pc = "resize" /\ FrontSize(auxImgData) = FrontSize(mainImage))
         => /\ auxImgData' = auxImgData
            /\ batch.kind = "none" /\ batch' = batch
            /\ scaledResultData' = scaledResultData
            /\ pc' = "append"]_vars

C9_Witness ==
    /\ pc = "append"
    /\ trace.resized = "same"
    /\ auxImgData.hasPremultipliedAlpha
    /\ auxImgData.toRec709 # Identity

\* the type tag with every colon made a period, and a period after it
Normalized(tag) ==
    [k \in 1..(Len(tag) + 1) |->
        IF k = Len(tag) + 1 THEN "." ELSE IF tag[k] = ":" THEN "." ELSE tag[k]]

\* s occurs in text, character for character
Substring(text, s) ==
    \E k \in 1..(Len(text) + 1) :
        k + Len(s) - 1 <= Len(text) /\ SubSeq(text, k, k + Len(s) - 1) = s

\* C11: a layer is decoded, and has its channels in the result, exactly if its
\* normalized name has the selector as a substring, case-sensitively; a layer that
\* does not match is never decoded and never appended.  A layer tagged "depth" is
\* taken for the selector "dep" and passed over for "color" and for "DEP".
C11_SelectedIffNameMatches ==
    /\ \A k \in 1..Len(trace.layers) :
          LET L == trace.layers[k] IN
          /\ L.tag # NoString => L.name = Normalized(L.tag)
          /\ L.selected <=> Substring(L.name, channelSelector)
          /\ ~L.selected => L.count = 0
          /\ pc = "done" => (L.selected <=> ChannelsPresent(L))
          /\ (L.tag = sDepth /\ channelSelector = sDep) => L.selected
          /\ (L.tag = sDepth /\ channelSelector \in {sColor, sDEP}) => ~L.selected
    /\ dec.caller = "aux" =>
          /\ trace.layers # <<>>
          /\ trace.layers[Len(trace.layers)].selected
          /\ trace.layers[Len(trace.layers)].idx = i

C11_Witness ==
    /\ pc = "done"
    /\ channelSelector = sDep
    /\ Len(trace.layers) = 2
    /\ trace.layers[1].tag = sHdrGainMap /\ trace.layers[1].count = 0
    /\ trace.layers[2].tag = sDepth /\ ChannelsPresent(trace.layers[2])
    /\ Len(mainImage.channels) = 6

\* a sample with the fusions it has been through taken off
RECURSIVE Unfused(_)
Unfused(v) == IF v[1] = "gain" THEN Unfused(v[2]) ELSE v

\* the normalized samples of pixel x of row y of the plane
PlanePixel(d, y, x) ==
    [c \in 1..d.numChannels |->
        <<"norm", Raw(y, x * d.numChannels + c - 1), 2 ^ d.bits - 1>>]

\* C12: with a transform built from the ICC profile the image's samples are the
\* transform's outputs, the NCLX descriptor is never read, the linearizing rows never
\* run and toRec709 stays the identity; an image decodeImage gives another toRec709
\* has no sample that came out of the ICC transform, and neither have the primary
\* image's own channels later.
C12_IccAndNclxExclusive ==
    /\ trace.d.icc = "ok" =>
          /\ trace.d.nclx.error = "unread"
          /\ pc # "nclx_wait" /\ batch.kind # "nclx"
          /\ pc = "icc_wait" => resultData.toRec709 = Identity
          /\ AtReturn =>
                /\ Returned.toRec709 = Identity
                /\ \A y \in 0..(dec.size[2] - 1), x \in 0..(dec.size[1] - 1), c \in 0..3 :
                      Returned.bufs[1][(y * dec.size[1] + x) * 4 + c + 1] =
                          <<"icc", c, PlanePixel(dec, y, x)>>
    /\ trace.d.nclx.error # "unread" => trace.d.icc \notin {"ok", "unasked"}
    /\ batch.kind = "icc" => (pc = "icc_wait" /\ trace.d.icc = "ok")
    /\ \A img \in {resultData} \cup (IF AtReturn THEN {Returned} ELSE {}) :
          img.toRec709 # Identity =>
              \A b \in 1..Len(img.bufs) : \A k \in 1..Len(img.bufs[b]) :
                  img.bufs[b][k][1] # "icc"
    /\ (mainImage # NoImage /\ mainImage.toRec709 # Identity) =>
          \A k \in 1..Len(mainImage.bufs[1]) : Unfused(mainImage.bufs[1][k])[1] # "icc"

C12_Witness ==
    /\ pc = "resize"
    /\ trace.d.icc = "ok"
    /\ dec.numChannels = 3
    /\ mainImage.toRec709 # Identity
    /\ auxImgData.bufs[1][4] = <<"icc", 3, PlanePixel(dec, 0, 0)>>

\* the layers whose channels have been appended, in the order the loop met them
WasAppended(L) == L.count > 0
Appended == SelectSeq(trace.layers, WasAppended)

\* the channels of the layers before the k-th appended one
RECURSIVE CountBefore(_, _)
CountBefore(ap, k) == IF k <= 1 THEN 0 ELSE CountBefore(ap, k - 1) + ap[k - 1].count

\* the channels that view the primary image's own buffer
PrimaryCount ==
    Cardinality({c \in 1..Len(mainImage.channels) : mainImage.channels[c].buf = 1})

\* C13: the primary image's channel list is its own channels, then the channels of
\* each appended layer in the order the layers were met, each layer on its own buffer;
\* every channel has the primary's size, and so has its buffer; when load returns
\* every selected layer has been appended.
C13_ChannelsInOrderAndOfOneSize ==
    mainImage # NoImage =>
        LET n0 == PrimaryCount
            ap == Appended
            size == FrontSize(mainImage)
        IN
        /\ n0 \in {3, 4}
        /\ \A c \in 1..n0 :
              /\ mainImage.channels[c].name = <<ChannelNames[c]>>
              /\ mainImage.channels[c].buf = 1
              /\ mainImage.channels[c].off = c - 1
        /\ Len(mainImage.channels) = n0 + CountBefore(ap, Len(ap) + 1)
        /\ \A k \in 1..Len(ap) :
              /\ ap[k].first = n0 + CountBefore(ap, k) + 1
              /\ k > 1 => ap[k - 1].idx < ap[k].idx
              /\ \A c \in 1..ap[k].count :
                    LET ch == mainImage.channels[ap[k].first + c - 1] IN
                    /\ ch.name = ap[k].name \o <<ChannelNames[c]>>
                    /\ ch.buf = k + 1
                    /\ ch.off = c - 1
        /\ \A c \in 1..Len(mainImage.channels) :
              /\ mainImage.channels[c].size = size
              /\ Len(mainImage.bufs[mainImage.channels[c].buf]) = size[1] * size[2] * 4
        /\ pc = "done" =>
              \A k \in 1..Len(trace.layers) :
                  trace.layers[k].selected => WasAppended(trace.layers[k])

C13_Witness ==
    /\ pc = "aux_next"
    /\ trace.resized = "scaled"
    /\ Len(Appended) = 2
    /\ Appended[1].count = 4
    /\ Len(mainImage.channels) = 10
    /\ mainImage.channels[10].size = <<MaxWidth, MaxDim>>

\* the two weights of one axis, as fractions over den, lie in [0, 1]
InUnit(w) == 0 <= w[1] /\ w[1] <= w[3] /\ 0 <= w[2] /\ w[2] <= w[3]

\* the two source indices of one axis lie in the source
InSource(a, srcSize) == 0 <= a.i0 /\ a.i0 <= a.i1 /\ a.i1 <= srcSize - 1

\* C14 as stated: for every destination pixel the four source indices lie in the
\* source image and the interpolation weights lie in [0, 1], so that every sample
\* resizeImage writes is a convex combination of four source samples.
C14_ResizeIsConvex ==
    /\ pc = "resize_wait" =>
          LET size == FrontSize(auxImgData)
              targetSize == FrontSize(scaledResultData)
          IN /\ \A dstX \in 0..(targetSize[1] - 1) :
                    InSource(Axis(dstX, size[1], targetSize[1]), size[1])
             /\ \A dstY \in 0..(targetSize[2] - 1) :
                    InSource(Axis(dstY, size[2], targetSize[2]), size[2])
    /\ \A img \in {scaledResultData, auxImgData} :
          \A b \in 1..Len(img.bufs) : \A k \in 1..Len(img.bufs[b]) :
              LET v == img.bufs[b][k] IN
              v[1] = "bilerp" => (InUnit(v[2]) /\ InUnit(v[3]))

\* C15 as stated: in the image load returns no two channels have the same name,
\* whatever the layers' type tags are, and the channels of a layer with a type tag
\* are named after that tag.
C15_ChannelNamesDistinct ==
    pc = "done" =>
        /\ \A c1 \in 1..Len(mainImage.channels), c2 \in 1..Len(mainImage.channels) :
              c1 # c2 => mainImage.channels[c1].name # mainImage.channels[c2].name
        /\ \A k \in 1..Len(Appended) :
              Appended[k].tag # NoString => Appended[k].name = Normalized(Appended[k].tag)

\* the elements of array `name` that differ between two of its values
Changed(name, old, new) ==
    IF Len(old) # Len(new) THEN {<<name, "reallocated">>}
    ELSE {<<name, k - 1>> : k \in {j \in 1..Len(old) : old[j] # new[j]}}

FirstBuf(img) == IF img.bufs = <<>> THEN <<>> ELSE img.bufs[1]

\* the elements of row y: samples [y*W*N, (y+1)*W*N) of the scratch array and
\* [y*W*4, (y+1)*W*4) of the output for the ICC rows, pixels [y*W, (y+1)*W) of each
\* channel otherwise (pixel p of channel c is element p*4 + c of the buffer)
RowElements(kind, W, N, y) ==
    IF kind = "icc"
    THEN {<<"src", j>> : j \in (y * W * N)..((y + 1) * W * N - 1)}
           \cup {<<"dst", j>> : j \in (y * W * 4)..((y + 1) * W * 4 - 1)}
    ELSE {<<IF kind = "nclx" THEN "dst" ELSE "scaled", p * 4 + c>> :
             p \in (y * W)..((y + 1) * W - 1), c \in 0..(N - 1)}

ArrayLen(name) ==
    CASE name = "src" -> Len(src)
      [] name = "dst" -> Len(FirstBuf(resultData))
      [] name = "scaled" -> Len(FirstBuf(scaledResultData))
      [] OTHER -> Len(FirstBuf(auxImgData))

RowBatches == {"icc", "nclx", "resize"}

\* C16: in the ICC, the linearizing and the resampling batch, row y writes the
\* elements of row y and no others, all of them inside the arrays; no two rows write
\* one element, and no row reads an element another row writes; a row that finishes
\* has changed nothing but its own elements.
C16_RowsWriteDisjointRanges ==
    /\ [](batch.kind \in RowBatches =>
            LET W == IF batch.kind = "resize" THEN FrontSize(scaledResultData)[1]
                     ELSE dec.size[1]
                N == IF batch.kind = "resize" THEN Len(auxImgData.channels)
                     ELSE dec.numChannels
            IN \A r1 \in DOMAIN batch.st :
                  /\ RowWrites(r1) = RowElements(batch.kind, W, N, r1)
                  /\ \A e \in RowWrites(r1) \cup RowReads(r1) :
                        0 <= e[2] /\ e[2] < ArrayLen(e[1])
                  /\ \A r2 \in DOMAIN batch.st \ {r1} :
                        /\ RowWrites(r1) \cap RowWrites(r2) = {}
                        /\ RowWrites(r1) \cap RowReads(r2) = {})
    /\ [][batch.kind \in RowBatches =>
            \A r \in DOMAIN batch.st :
                (batch.st[r] = "running" /\ batch'.st[r] = "done") =>
                    (Changed("src", src, src')
                       \cup Changed("dst", FirstBuf(resultData), FirstBuf(resultData'))
                       \cup Changed("scaled", FirstBuf(scaledResultData),
                                    FirstBuf(scaledResultData'))
                       \cup Changed("aux", FirstBuf(auxImgData), FirstBuf(auxImgData')))
                    \subseteq RowWrites(r)]_vars

C16_Witness ==
    /\ batch.kind = "icc"
    /\ dec.numChannels = 3
    /\ DOMAIN batch.st = {0, 1}
    /\ batch.st[0] = "running" /\ batch.st[1] = "running"

====
